---- MODULE Spec2Model ----
(***************************************************************************)
(* Model of pdf_outline_extractor_new/main.py: the title and H1/H2/H3      *)
(* outline extraction of one PDF document.                                 *)
(*                                                                         *)
(* Strings are sequences of one-character strings, so that strip, lower,   *)
(* substring tests, split and the regular expressions of the source are    *)
(* computed character by character.  A span's "size" is kept in half       *)
(* points (2 * the size in points), so that round() has ties to break.     *)
(***************************************************************************)
EXTENDS Integers, Sequences, FiniteSets, TLC

VARIABLES
    document,            \* the decoded layout tree: Seq of pages, a page a Seq of blocks
    handle,              \* "unopened" | "open" | "closed": the fitz document handle
    pc,                  \* position inside extract_outline_from_pdf
    sorted_font_sizes,   \* result of analyze_document_fonts
    th,                  \* <<h1_th, h2_th, h3_th, body_max_size>>
    title_candidates,    \* history: potential_titles of the title scan, before its sort
    returned_title,      \* what extract_title_from_document returned
    extracted_title,     \* the title after the filename fallback
    outline,             \* Seq of [level, text, page]
    last_added_heading,  \* the single "last added" slot
    page_num,            \* loop variable of the outline walk
    origin               \* history: where each outline entry was read from

vars == <<document, handle, pc, sorted_font_sizes, th, title_candidates,
          returned_title, extracted_title, outline, last_added_heading,
          page_num, origin>>

(***************************************************************************)
(* Characters and the str methods the source uses                          *)
(***************************************************************************)
UpperLetters == <<"A","B","C","D","E","F","G","H","I","J","K","L","M",
                  "N","O","P","Q","R","S","T","U","V","W","X","Y","Z">>

LowerLetters == <<"a","b","c","d","e","f","g","h","i","j","k","l","m",
                  "n","o","p","q","r","s","t","u","v","w","x","y","z">>

Range(s) == {s[i] : i \in 1..Len(s)}

\* \d
Digit == {"0","1","2","3","4","5","6","7","8","9"}

\* [a-zA-Z]
Alpha == Range(UpperLetters) \cup Range(LowerLetters)

\* \s, and the characters str.strip() and str.split() treat as blank
Space == {" ", "\n", "\t"}

\* \w ; \W is every character outside it
WordChar == Alpha \cup Digit \cup {"_"}

\* [ivxlcdm]
RomanChar == {"i","v","x","l","c","d","m"}

\* str.lower() on one character
LowerChar(c) ==
    IF \E i \in 1..26 : UpperLetters[i] = c
    THEN LowerLetters[CHOOSE i \in 1..26 : UpperLetters[i] = c]
    ELSE c

\* str.lower()
Lower(s) == [i \in 1..Len(s) |-> LowerChar(s[i])]

\* str.strip()
Strip(s) ==
    LET keep == {i \in 1..Len(s) : s[i] \notin Space}
    IN  IF keep = {} THEN <<>>
        ELSE LET lo == CHOOSE i \in keep : \A j \in keep : i <= j
                 hi == CHOOSE i \in keep : \A j \in keep : j <= i
             IN  SubSeq(s, lo, hi)

\* sub in s
Contains(sub, s) ==
    \E i \in 1..(Len(s) - Len(sub) + 1) : SubSeq(s, i, i + Len(sub) - 1) = sub

\* len(s.split()): the number of maximal runs of non-blank characters
WordCount(s) ==
    Cardinality({i \in 1..Len(s) :
                    /\ s[i] \notin Space
                    /\ (i = 1 \/ s[i-1] \in Space)})

\* s.split('\n')[0]
FirstLine(s) ==
    LET nl == {i \in 1..Len(s) : s[i] = "\n"}
    IN  IF nl = {} THEN s
        ELSE SubSeq(s, 1, (CHOOSE i \in nl : \A j \in nl : i <= j) - 1)

\* " ".join(parts)
RECURSIVE JoinSpace(_)
JoinSpace(parts) ==
    IF parts = <<>> THEN <<>>
    ELSE IF Len(parts) = 1 THEN parts[1]
    ELSE parts[1] \o <<" ">> \o JoinSpace(Tail(parts))

(***************************************************************************)
(* The regular expressions, matched the way re.match does: anchored at the *)
(* start, greedy, "$" at the end or before one final newline.              *)
(***************************************************************************)
\* the index after the longest run of characters of cls that starts at i
RunEnd(s, i, cls) ==
    LET stops == {j \in i..Len(s) : s[j] \notin cls}
    IN  IF stops = {} THEN (IF i > Len(s) THEN i ELSE Len(s) + 1)
        ELSE CHOOSE j \in stops : \A k \in stops : j <= k

\* "$" at index i
AtEnd(s, i) == i = Len(s) + 1 \/ (i = Len(s) /\ s[i] = "\n")

\* the literal lit at index i
LitAt(s, i, lit) ==
    /\ i + Len(lit) - 1 <= Len(s)
    /\ SubSeq(s, i, i + Len(lit) - 1) = lit

\* (\.\d+)* from index i: the index after the last group
RECURSIVE DotGroups(_, _)
DotGroups(s, i) ==
    IF i <= Len(s) /\ s[i] = "." /\ RunEnd(s, i + 1, Digit) > i + 1
    THEN DotGroups(s, RunEnd(s, i + 1, Digit))
    ELSE i

\* ^\s*\d+(\.\d+)*\s*$
MatchNumber(s) ==
    LET a == RunEnd(s, 1, Space)
        b == RunEnd(s, a, Digit)
        c == DotGroups(s, b)
        d == RunEnd(s, c, Space)
    IN  b > a /\ d = Len(s) + 1

\* ^(page|pg\.)\s+\d+(\s+of\s+\d+)?$
MatchPage(s) ==
    LET a == IF LitAt(s, 1, <<"p","a","g","e">>) THEN 5
             ELSE IF LitAt(s, 1, <<"p","g",".">>) THEN 4 ELSE 0
        b == RunEnd(s, a, Space)
        c == RunEnd(s, b, Digit)
        d == RunEnd(s, c, Space)
        e == RunEnd(s, d + 2, Space)
        f == RunEnd(s, e, Digit)
    IN  /\ a > 0 /\ b > a /\ c > b
        /\ \/ AtEnd(s, c)
           \/ d > c /\ LitAt(s, d, <<"o","f">>) /\ e > d + 2 /\ f > e /\ AtEnd(s, f)

\* ^\d{1,2}\s+[a-zA-Z]{3,}\s+\d{4}$
MatchDate(s) ==
    LET a == RunEnd(s, 1, Digit)
        b == RunEnd(s, a, Space)
        c == RunEnd(s, b, Alpha)
        d == RunEnd(s, c, Space)
        e == RunEnd(s, d, Digit)
    IN  /\ a \in {2, 3} /\ b > a /\ c >= b + 3 /\ d > c
        /\ e >= d + 4 /\ AtEnd(s, d + 4)

\* ^\(continued\)$
MatchContinued(s) ==
    /\ LitAt(s, 1, <<"(","c","o","n","t","i","n","u","e","d",")">>)
    /\ AtEnd(s, 12)

\* ^\s*[\W_]+\s*$ : \s is part of \W, so the three runs together are one run
\* of [\W_] that reaches the end and holds at least one character
MatchSymbols(s) ==
    /\ Len(s) >= 1
    /\ \A i \in 1..Len(s) : s[i] \notin WordChar \/ s[i] = "_"

\* ^[ivxlcdm]+\.?$
MatchRoman(s) ==
    LET a == RunEnd(s, 1, RomanChar)
        b == IF a <= Len(s) /\ s[a] = "." THEN a + 1 ELSE a
    IN  a > 1 /\ (AtEnd(s, a) \/ AtEnd(s, b))

\* ^\d+$
MatchDigits(s) ==
    LET a == RunEnd(s, 1, Digit)
    IN  a > 1 /\ AtEnd(s, a)

(***************************************************************************)
(* round(): Python 3 rounds a tie to the even integer.  n is the size in   *)
(* half points.                                                            *)
(***************************************************************************)
Round(n) ==
    LET q == n \div 2
    IN  IF n % 2 = 0 THEN q
        ELSE IF q % 2 = 0 THEN q ELSE q + 1

(***************************************************************************)
(* determine_heading_thresholds                                            *)
(***************************************************************************)
DefaultH1 == 24
DefaultH2 == 18
DefaultH3 == 14
BODY_TEXT_MAX_SIZE == 12

Min2(a, b) == IF a <= b THEN a ELSE b
Max2(a, b) == IF a >= b THEN a ELSE b

\* [fs for fs in sorted_font_sizes if fs > BODY_TEXT_MAX_SIZE]
LargeSizes(sizes) == SelectSeq(sizes, LAMBDA fs : fs > BODY_TEXT_MAX_SIZE)

\* the thresholds picked from the ranked large sizes, before any clamping
PickedThresholds(large) ==
    IF Len(large) >= 3 THEN <<large[1], large[2], large[3]>>
    ELSE IF Len(large) = 2 THEN <<large[1], large[2], large[2]>>
    ELSE IF Len(large) = 1 THEN <<large[1], large[1], large[1]>>
    ELSE <<DefaultH1, DefaultH2, DefaultH3>>

\* a plausible slip: the descending clamp of lines 59-60 left out
ClampNoDescending(p) ==
    <<Max2(p[1], BODY_TEXT_MAX_SIZE + 2),
      Max2(p[2], BODY_TEXT_MAX_SIZE + 1),
      Max2(p[3], BODY_TEXT_MAX_SIZE),
      BODY_TEXT_MAX_SIZE>>

\* a plausible slip: one floor (BODY_TEXT_MAX_SIZE + 2) applied to all three
ClampOneFloor(p) ==
    LET h2 == Min2(p[2], p[1])
        h3 == Min2(p[3], h2)
    IN  <<Max2(p[1], BODY_TEXT_MAX_SIZE + 2),
          Max2(h2, BODY_TEXT_MAX_SIZE + 2),
          Max2(h3, BODY_TEXT_MAX_SIZE + 2),
          BODY_TEXT_MAX_SIZE>>

\* lines 59-65: descending clamp, then the floors against body text
Clamp(p) ==
    LET h2 == Min2(p[2], p[1])
        h3 == Min2(p[3], h2)
    IN  <<Max2(p[1], BODY_TEXT_MAX_SIZE + 2),
          Max2(h2, BODY_TEXT_MAX_SIZE + 1),
          Max2(h3, BODY_TEXT_MAX_SIZE),
          BODY_TEXT_MAX_SIZE>>

determine_heading_thresholds(sizes) == Clamp(PickedThresholds(LargeSizes(sizes)))

(***************************************************************************)
(* The layout tree.  A span is [text, size, font], a line a sequence of    *)
(* spans, a block [type, bbox, lines] with bbox = <<x0, y0, x1, y1>>, a    *)
(* page a sequence of blocks, a document a sequence of pages.              *)
(***************************************************************************)
\* whether integer tuple a is <= b in Python's tuple order (equal lengths)
TupleLE(a, b) ==
    \/ a = b
    \/ \E i \in 1..Len(a) : a[i] < b[i] /\ \A j \in 1..(i - 1) : a[j] = b[j]

\* insert record x into the key-sorted sequence s after every record whose
\* key is <= x.key
RECURSIVE InsertByKey(_, _)
InsertByKey(s, x) ==
    IF s = <<>> THEN <<x>>
    ELSE IF TupleLE(s[Len(s)].key, x.key) THEN Append(s, x)
    ELSE Append(InsertByKey(SubSeq(s, 1, Len(s) - 1), x), s[Len(s)])

\* list.sort(key=...): ascending by key, equal keys keep their order (stable)
RECURSIVE SortByKey(_)
SortByKey(s) ==
    IF s = <<>> THEN <<>>
    ELSE InsertByKey(SortByKey(SubSeq(s, 1, Len(s) - 1)), s[Len(s)])

\* the blocks of a page, each with its place in the page and its sort key
\* (b["bbox"][1], b["bbox"][0])
KeyedBlocks(blocks) ==
    [i \in 1..Len(blocks) |->
        [key |-> <<blocks[i].bbox[2], blocks[i].bbox[1]>>, idx |-> i, val |-> blocks[i]]]

\* a plausible slip: the blocks walked in the order the decoder gave them
BlocksUnsorted(blocks) == KeyedBlocks(blocks)

\* blocks.sort(key=lambda b: (b["bbox"][1], b["bbox"][0]))
SortedBlocks(blocks) == SortByKey(KeyedBlocks(blocks))

RECURSIVE Concat(_)
Concat(ss) == IF ss = <<>> THEN <<>> ELSE Head(ss) \o Concat(Tail(ss))

\* the lines of the text blocks (type 0) of keyed blocks kb, in order, each
\* with the place it was read from
LineItems(kb) ==
    Concat([i \in 1..Len(kb) |->
        IF kb[i].val.type = 0
        THEN [j \in 1..Len(kb[i].val.lines) |->
                [spans |-> kb[i].val.lines[j], key |-> kb[i].key,
                 blk |-> kb[i].idx, ln |-> j]]
        ELSE <<>>])

\* the spans of the text blocks of keyed blocks kb, in order
SpanItems(kb) == Concat([i \in 1..Len(LineItems(kb)) |-> LineItems(kb)[i].spans])

(***************************************************************************)
(* analyze_document_fonts                                                  *)
(***************************************************************************)
SmallFontMax == 9

\* every span of every text block of the document, pages in order
DocumentSpans(doc) ==
    Concat([p \in 1..Len(doc) |-> SpanItems(KeyedBlocks(doc[p]))])

\* font_size_usage[fs]: the summed length of the stripped, non-empty texts of
\* the spans whose rounded size is fs
RECURSIVE FontSizeUsage(_, _)
FontSizeUsage(spans, fs) ==
    IF spans = <<>> THEN 0
    ELSE (IF Round(Head(spans).size) = fs THEN Len(Strip(Head(spans).text)) ELSE 0)
         + FontSizeUsage(Tail(spans), fs)

\* the keys of filtered_sizes: counted at least once, positive, above 9
FilteredSizes(spans) ==
    {fs \in {Round(spans[i].size) : i \in 1..Len(spans)} :
        fs > 0 /\ FontSizeUsage(spans, fs) > 0 /\ fs > SmallFontMax}

\* sorted(keys, key=(usage, fs), reverse=True); the keys are distinct
RECURSIVE RankSizes(_, _)
RankSizes(S, spans) ==
    IF S = {} THEN <<>>
    ELSE LET top == CHOOSE x \in S : \A y \in S :
                        TupleLE(<<FontSizeUsage(spans, y), y>>,
                                <<FontSizeUsage(spans, x), x>>)
         IN  <<top>> \o RankSizes(S \ {top}, spans)

analyze_document_fonts(doc) ==
    RankSizes(FilteredSizes(DocumentSpans(doc)), DocumentSpans(doc))

(***************************************************************************)
(* extract_title_from_document                                             *)
(***************************************************************************)
TitlePages == 2

K_bold == <<"b","o","l","d">>
K_black == <<"b","l","a","c","k">>
K_heavy == <<"h","e","a","v","y">>
K_demi == <<"d","e","m","i">>
K_contents == <<"c","o","n","t","e","n","t","s">>
K_page == <<"p","a","g","e">>

\* min(len(document), 2)
TitlePageCount(doc) == Min2(Len(doc), TitlePages)

\* the spans the scan visits, in scan order: (text_content, font_size,
\* page_num, is_bold) of every span of the text blocks of the first pages,
\* the blocks of each page sorted
TitleScanItems(doc) ==
    Concat([p \in 1..TitlePageCount(doc) |->
        LET sp == SpanItems(SortedBlocks(doc[p]))
        IN  [i \in 1..Len(sp) |->
                [text |-> Strip(sp[i].text),
                 size |-> Round(sp[i].size),
                 page |-> p - 1,
                 bold |-> Contains(K_bold, Lower(sp[i].font))
                          \/ Contains(K_black, Lower(sp[i].font))]]])

\* lines 93-98: the running maximum and the candidates tied at it
RECURSIVE TitleScan(_, _, _)
TitleScan(items, max_font_size_found, potential_titles) ==
    IF items = <<>> THEN potential_titles
    ELSE LET it == Head(items)
         IN  IF it.text # <<>> /\ it.size > 0
             THEN IF it.size > max_font_size_found
                  THEN TitleScan(Tail(items), it.size, <<it>>)
                  ELSE IF it.size = max_font_size_found
                  THEN TitleScan(Tail(items), max_font_size_found,
                                 Append(potential_titles, it))
                  ELSE TitleScan(Tail(items), max_font_size_found, potential_titles)
             ELSE TitleScan(Tail(items), max_font_size_found, potential_titles)

\* potential_titles after the scan
PotentialTitles(doc) == TitleScan(TitleScanItems(doc), 0, <<>>)

\* potential_titles.sort(key=lambda x: (-x[1], x[2], -x[3], -len(x[0])))
SortTitles(pt) ==
    LET keyed == [i \in 1..Len(pt) |->
                    [key |-> <<0 - pt[i].size, pt[i].page,
                               IF pt[i].bold THEN 0 - 1 ELSE 0,
                               0 - Len(pt[i].text)>>,
                     val |-> pt[i]]]
        sorted == SortByKey(keyed)
    IN  [i \in 1..Len(sorted) |-> sorted[i].val]

\* the test of lines 109-113 on one candidate
StrongTitle(c, h1_threshold) ==
    /\ c.page = 0
    /\ WordCount(c.text) > 2
    /\ 10 * c.size >= 8 * h1_threshold
    /\ ~MatchDigits(c.text)
    /\ ~Contains(K_contents, Lower(c.text))
    /\ ~Contains(K_page, Lower(c.text))

None == [found |-> FALSE, text |-> <<>>]
Some(text) == [found |-> TRUE, text |-> text]

\* a plausible slip: the fallback of lines 117-118 left out
SelectTitleNoFallback(sorted, h1_threshold) ==
    LET strong == {i \in 1..Len(sorted) : StrongTitle(sorted[i], h1_threshold)}
    IN  IF strong # {}
        THEN Some(Strip(FirstLine(sorted[CHOOSE i \in strong : \A j \in strong : i <= j].text)))
        ELSE None

\* lines 107-120: the first strong candidate, else the top-ranked candidate
\* when it is on page 0, else None
SelectTitle(sorted, h1_threshold) ==
    LET strong == {i \in 1..Len(sorted) : StrongTitle(sorted[i], h1_threshold)}
    IN  IF strong # {}
        THEN Some(Strip(FirstLine(sorted[CHOOSE i \in strong : \A j \in strong : i <= j].text)))
        ELSE IF sorted # <<>> /\ sorted[1].page = 0
        THEN Some(Strip(FirstLine(sorted[1].text)))
        ELSE None

extract_title_from_document(doc, h1_threshold) ==
    IF PotentialTitles(doc) = <<>> THEN None
    ELSE SelectTitle(SortTitles(PotentialTitles(doc)), h1_threshold)

(***************************************************************************)
(* is_heading_candidate, get_heading_level and the special sections        *)
(***************************************************************************)
K_copyright == <<"c","o","p","y","r","i","g","h","t">>
K_www == <<"w","w","w",".">>

\* lines 224-229: the sections that are H1 whatever the size
FrontSections ==
    { <<"t","a","b","l","e"," ","o","f"," ","c","o","n","t","e","n","t","s">>,
      <<"l","i","s","t"," ","o","f"," ","f","i","g","u","r","e","s">>,
      <<"l","i","s","t"," ","o","f"," ","t","a","b","l","e","s">>,
      <<"a","c","k","n","o","w","l","e","d","g","e","m","e","n","t","s">>,
      <<"f","o","r","e","w","o","r","d">>,
      <<"p","r","e","f","a","c","e">> }

K_introduction == <<"i","n","t","r","o","d","u","c","t","i","o","n">>

\* lines 232-236
BackSections ==
    { <<"r","e","f","e","r","e","n","c","e","s">>,
      <<"b","i","b","l","i","o","g","r","a","p","h","y">>,
      <<"a","p","p","e","n","d","i","x">>,
      <<"g","l","o","s","s","a","r","y">>,
      <<"i","n","d","e","x">> }

NoLevel == "none"

\* lines 130-137: page numbers, dates, URLs, symbols, roman numerals
NonHeadingPattern(text) ==
    \/ MatchNumber(text)
    \/ MatchPage(Lower(text))
    \/ MatchDate(text)
    \/ Contains(K_copyright, Lower(text))
    \/ Contains(K_www, Lower(text))
    \/ MatchContinued(Lower(text))
    \/ MatchSymbols(text)
    \/ MatchRoman(Lower(text))

\* lines 141 and 214
IsBold(font_name) ==
    \/ Contains(K_bold, Lower(font_name))
    \/ Contains(K_black, Lower(font_name))
    \/ Contains(K_heavy, Lower(font_name))
    \/ Contains(K_demi, Lower(font_name))

\* a plausible slip: the pattern test of lines 130-138 left out
CandidateNoPatterns(text, font_size, font_name, t) ==
    /\ Len(text) >= 2
    /\ ~(~IsBold(font_name) /\ font_size <= t[4])
    /\ ~(10 * font_size < 9 * t[3])

\* a plausible slip: the size and boldness tests of lines 144-149 left out
CandidateNoSizeTest(text, font_size, font_name, t) ==
    /\ Len(text) >= 2
    /\ ~NonHeadingPattern(text)

\* t = <<h1_th, h2_th, h3_th, body_max_size>>; font_size < h3_th * 0.9 is
\* compared in tenths
is_heading_candidate(text, font_size, font_name, t) ==
    /\ Len(text) >= 2
    /\ ~NonHeadingPattern(text)
    /\ ~(~IsBold(font_name) /\ font_size <= t[4])
    /\ ~(10 * font_size < 9 * t[3])

get_heading_level(font_size, is_bold, t) ==
    IF font_size >= t[1] /\ is_bold THEN "H1"
    ELSE IF font_size >= t[2] /\ is_bold THEN "H2"
    ELSE IF font_size >= t[3] /\ is_bold THEN "H3"
    ELSE NoLevel

\* a plausible slip: the size test taken to bind the whole "or" chain
SpecialSectionSizeBindsAll(lower_text, font_size, t) ==
    IF /\ \/ \E k \in FrontSections : Contains(k, lower_text)
          \/ Contains(K_introduction, lower_text)
       /\ 10 * font_size >= 9 * t[2]
    THEN "H1"
    ELSE IF \E k \in BackSections : Contains(k, lower_text) THEN "H1"
    ELSE NoLevel

\* a plausible slip: the keywords of lines 232-236 demoted to H2
SpecialSectionBackH2(lower_text, font_size, t) ==
    IF \/ \E k \in FrontSections : Contains(k, lower_text)
       \/ Contains(K_introduction, lower_text) /\ 10 * font_size >= 9 * t[2]
    THEN "H1"
    ELSE IF \E k \in BackSections : Contains(k, lower_text) THEN "H2"
    ELSE NoLevel

\* lines 223-237: "and" binds tighter than "or", so the size test belongs to
\* "introduction" alone
SpecialSection(lower_text, font_size, t) ==
    IF \/ \E k \in FrontSections : Contains(k, lower_text)
       \/ Contains(K_introduction, lower_text) /\ 10 * font_size >= 9 * t[2]
    THEN "H1"
    ELSE IF \E k \in BackSections : Contains(k, lower_text) THEN "H1"
    ELSE NoLevel

\* full_line_text of line 204
FullLineText(spans) == Strip(JoinSpace([i \in 1..Len(spans) |-> spans[i].text]))

\* lines 204-237 for one line: the level, or NoLevel when the line is skipped
LineLevel(spans, t) ==
    LET full_line_text == FullLineText(spans)
        span_font_size == Round(spans[1].size)
        span_font_name == Lower(spans[1].font)
        level          == get_heading_level(span_font_size, IsBold(span_font_name), t)
    IN  IF full_line_text = <<>> THEN NoLevel
        ELSE IF ~is_heading_candidate(full_line_text, span_font_size, span_font_name, t)
        THEN NoLevel
        ELSE IF level # NoLevel THEN level
        ELSE SpecialSection(Lower(full_line_text), span_font_size, t)

(***************************************************************************)
(* The outline walk of extract_outline_from_pdf                            *)
(***************************************************************************)
\* a plausible slip: the page left out of the comparison
IsNewHeadingNoPage(out, last, entry) ==
    \/ out = <<>>
    \/ entry.text # last.text
    \/ entry.level # last.level

\* lines 241-244
IsNewHeading(out, last, entry) ==
    \/ out = <<>>
    \/ entry.text # last.text
    \/ entry.level # last.level
    \/ entry.page # last.page

\* lines 204-248 for one line of page pn (zero-based); acc = [outline, last, origin]
WalkLine(item, acc, pn, t) ==
    LET level == LineLevel(item.spans, t)
        new_entry == [level |-> level, text |-> FullLineText(item.spans), page |-> pn + 1]
    IN  IF level # NoLevel /\ IsNewHeading(acc.outline, acc.last, new_entry)
        THEN [outline |-> Append(acc.outline, new_entry),
              last    |-> new_entry,
              origin  |-> Append(acc.origin,
                                 [page |-> pn, key |-> item.key,
                                  blk |-> item.blk, ln |-> item.ln])]
        ELSE acc

RECURSIVE WalkLines(_, _, _, _)
WalkLines(items, acc, pn, t) ==
    IF items = <<>> THEN acc
    ELSE WalkLines(Tail(items), WalkLine(Head(items), acc, pn, t), pn, t)

\* lines 194-248 for page pn
WalkOnePage(doc, pn, acc, t) ==
    WalkLines(LineItems(SortedBlocks(doc[pn + 1])), acc, pn, t)

(***************************************************************************)
(* The filename fallback of line 187                                       *)
(***************************************************************************)
pdf_path == <<"i","n","/","m","y","_","r","e","p","o","r","t",".","p","d","f">>

\* os.path.basename
Basename(path) ==
    LET sl == {i \in 1..Len(path) : path[i] = "/"}
    IN  IF sl = {} THEN path
        ELSE SubSeq(path, (CHOOSE i \in sl : \A j \in sl : j <= i) + 1, Len(path))

\* s.replace(old, new)
RECURSIVE Replace(_, _, _)
Replace(s, old, new) ==
    IF s = <<>> THEN <<>>
    ELSE IF LitAt(s, 1, old) THEN new \o Replace(SubSeq(s, Len(old) + 1, Len(s)), old, new)
    ELSE <<Head(s)>> \o Replace(Tail(s), old, new)

UpperChar(c) ==
    IF \E i \in 1..26 : LowerLetters[i] = c
    THEN UpperLetters[CHOOSE i \in 1..26 : LowerLetters[i] = c]
    ELSE c

\* str.title()
TitleCase(s) ==
    [i \in 1..Len(s) |->
        IF i = 1 \/ s[i-1] \notin Alpha THEN UpperChar(s[i]) ELSE LowerChar(s[i])]

FilenameTitle(path) ==
    TitleCase(Replace(Replace(Basename(path), <<".","p","d","f">>, <<>>), <<"_">>, <<" ">>))

(***************************************************************************)
(* Inputs: fonts, spans, lines, blocks, pages and documents                *)
(***************************************************************************)
F_Arial == <<"A","r","i","a","l">>
F_Bold == <<"A","r","i","a","l","-","B","o","l","d","M","T">>
F_Black == <<"U","n","i","v","e","r","s","-","B","l","a","c","k">>
F_Heavy == <<"F","u","t","u","r","a","-","H","e","a","v","y">>
F_Demi == <<"C","a","s","l","o","n","-","D","e","m","i","I","t","a","l","i","c">>

Fonts == {F_Arial, F_Bold, F_Black, F_Heavy, F_Demi}

Span(text, size, font) == [text |-> text, size |-> size, font |-> font]
TextBlock(left, top, lines) ==
    [type |-> 0, bbox |-> <<left, top, left + 1, top + 1>>, lines |-> lines]
ImageBlock(left, top) ==
    [type |-> 1, bbox |-> <<left, top, left + 1, top + 1>>, lines |-> <<>>]

\* all sequences over S of length 0..n
SeqsUpTo(S, n) == UNION {[1..k -> S] : k \in 0..n}

\* ---- documents of the outline walk: up to MaxPages pages, a page any
\* arrangement of distinct blocks of WalkBlocks
MaxPages == 2

\* "Appendix", 14 pt, regular: a heading only through the special sections
LnAppendix == <<Span(<<"A","p","p","e","n","d","i","x">>, 28, F_Arial)>>
\* "Appendix", 14 pt, bold: a heading through its size and weight
LnAppendixBold == <<Span(<<"A","p","p","e","n","d","i","x">>, 28, F_Bold)>>
\* "Overview ", 16 pt, bold
LnOverview == <<Span(<<"O","v","e","r","v","i","e","w"," ">>, 32, F_Bold)>>
\* "see the index", 10 pt, regular: body text that names a special section
LnBody == <<Span(<<"s","e","e"," ","t","h","e"," ","i","n","d","e","x">>, 20, F_Arial)>>

WalkBlocks ==
    { TextBlock(0, 1, <<LnAppendix>>),
      TextBlock(1, 0, <<LnAppendixBold, LnOverview>>),
      TextBlock(0, 0, <<LnOverview, LnBody, LnAppendix>>) }

\* the blocks lie in reading order as (0,0), (1,0), (0,1) in (left, top): two
\* share their top and differ in left, the third lies below both
WalkPages ==
    {p \in SeqsUpTo(WalkBlocks, Cardinality(WalkBlocks)) :
        \A i, j \in 1..Len(p) : i # j => p[i] # p[j]}

WalkDocuments == SeqsUpTo(WalkPages, MaxPages)

\* ---- documents of the title scan: pages drawn from TitlePagePool
MaxTitleDocPages == 3

\* a strong title: first page, four words, large, bold
PgStrong ==
    <<TextBlock(0, 0, <<<<Span(<<"A"," ","S","t","u","d","y"," ","o","f"," ","O","u","t","l","i","n","e"," ","E","x","t","r","a","c","t","i","o","n">>, 48, F_Bold)>>>>)>>

\* large, but names "contents" and is one word
PgContents ==
    <<TextBlock(0, 0, <<<<Span(<<"C","o","n","t","e","n","t","s">>, 48, F_Arial)>>>>)>>

\* the largest text, but two words only
PgShort ==
    <<TextBlock(0, 0, <<<<Span(<<"A","n","n","u","a","l"," ","R","e","p","o","r","t">>, 60, F_Arial)>>>>)>>

\* a blank span larger than anything, then a title that names "page"
PgBlankLead ==
    <<TextBlock(0, 0, <<<<Span(<<" ">>, 80, F_Bold),
        Span(<<"P","a","g","e"," ","L","a","y","o","u","t"," ","D","e","s","i","g","n"," ","N","o","t","e","s">>, 48, F_Black)>>>>)>>

\* a span of size 0, then body text
PgZero ==
    <<TextBlock(0, 0, <<<<Span(<<"H","i","d","d","e","n"," ","L","a","y","e","r"," ","T","e","x","t">>, 0, F_Bold),
        Span(<<"b","o","d","y"," ","t","e","x","t"," ","o","f"," ","t","h","e"," ","p","a","g","e">>, 20, F_Arial)>>>>)>>

\* digits only, and a title of two lines in one span
PgDigits ==
    <<TextBlock(0, 0, <<<<Span(<<"2","0","2","4">>, 48, F_Arial),
        Span(<<"L","i","n","e"," ","O","n","e"," ","O","f"," ","T","i","t","l","e","\n","s","e","c","o","n","d"," ","l","i","n","e">>, 47, F_Arial)>>>>)>>

\* two blocks given bottom first, tied in size; an image block between them
PgTwoBlocks ==
    <<TextBlock(0, 1, <<<<Span(<<"S","e","c","o","n","d"," ","B","l","o","c","k"," ","T","i","t","l","e"," ","H","e","r","e">>, 48, F_Arial)>>>>),
      ImageBlock(0, 0),
      TextBlock(0, 0, <<<<Span(<<"T","h","e"," ","F","i","r","s","t"," ","B","l","o","c","k"," ","T","i","t","l","e">>, 48, F_Arial)>>,
                        <<Span(<<"C","l","o","s","i","n","g"," ","W","o","r","d","s"," ","O","f"," ","V","o","l","u","m","e">>, 47, F_Bold)>>>>)>>

\* a page without blocks
PgEmpty == <<>>

TitlePagePool ==
    {PgStrong, PgContents, PgShort, PgBlankLead, PgZero, PgDigits, PgTwoBlocks, PgEmpty}

TitleDocuments == SeqsUpTo(TitlePagePool, MaxTitleDocPages)

\* ---- lines of the line classification
MaxFontSize == 16
BigFontSize == 30
ThresholdRanks == 3

ClassifyTexts ==
    { <<"R","e","f","e","r","e","n","c","e","s">>,
      <<"1","2">>,
      <<"3">>,
      <<"P","a","g","e"," ","3"," ","o","f"," ","1","0">>,
      <<"T","a","b","l","e"," ","o","f"," ","C","o","n","t","e","n","t","s">>,
      <<"I","n","t","r","o","d","u","c","t","i","o","n">>,
      <<"A","p","p","e","n","d","i","x"," ","A">>,
      <<"O","v","e","r","v","i","e","w">>,
      <<"s","e","e"," ","t","h","e"," ","i","n","d","e","x"," ">>,
      <<"1","2"," ","M","a","r","c","h"," ","2","0","2","4">>,
      <<"(","c","o","n","t","i","n","u","e","d",")">>,
      <<"x","i","v">>,
      <<"w","w","w",".","i","n","d","e","x",".","c","o","m">>,
      <<" ","P","r","e","f","a","c","e">>,
      <<"C","o","p","y","r","i","g","h","t"," ","I","n","d","e","x">>,
      <<"L","i","s","t"," ","o","f"," ","F","i","g","u","r","e","s">> }

\* raw sizes in half points: the whole points from 10 to MaxFontSize, the
\* ties 12.5 and 13.5, and one size above every threshold
ClassifySizes ==
    {2 * k : k \in (SmallFontMax + 1)..MaxFontSize}
    \cup {2 * BODY_TEXT_MAX_SIZE + 1, 2 * BODY_TEXT_MAX_SIZE + 3}
    \cup {2 * BigFontSize}

\* lines of one span, and three lines of two spans: a blank leading span that
\* carries the style, and a text split so that the join doubles a blank
ClassifyLines ==
    {<<Span(x, z, f)>> : x \in ClassifyTexts, z \in ClassifySizes, f \in Fonts}
    \cup {<<Span(<<" ">>, 2 * BigFontSize, F_Bold), Span(x, 20, F_Arial)>> :
              x \in {<<"R","e","f","e","r","e","n","c","e","s">>,
                     <<"S","u","m","m","a","r","y">>}}
    \cup {<<Span(<<"T","a","b","l","e"," ">>, 28, F_Arial), Span(<<"o","f"," ","C","o","n","t","e","n","t","s">>, 28, F_Arial)>>}

\* the ranked lists analyze_document_fonts can return, cut to the sizes that
\* determine_heading_thresholds reads: distinct sizes above BODY_TEXT_MAX_SIZE
RankedLargeLists ==
    {l \in SeqsUpTo((BODY_TEXT_MAX_SIZE + 1)..MaxFontSize \cup {BigFontSize},
                    ThresholdRanks) :
        \A i, j \in 1..Len(l) : i # j => l[i] # l[j]}

\* whether a document holding line can have the ranked large sizes l: every
\* large size of a non-blank span of the line is counted, so it is ranked
\* (among the first ThresholdRanks, or l is full)
RankedWith(l, line) ==
    \A i \in 1..Len(line) :
        (Strip(line[i].text) # <<>> /\ Round(line[i].size) > BODY_TEXT_MAX_SIZE)
            => \/ Round(line[i].size) \in Range(l)
               \/ Len(l) = ThresholdRanks

\* ---- ranked lists for determine_heading_thresholds taken alone: any sizes,
\* repeated or not, in any order
MaxRanked == 3
AnyRankedLists == SeqsUpTo((SmallFontMax - 1)..MaxFontSize, MaxRanked)

(***************************************************************************)
(* extract_outline_from_pdf, step by step                                  *)
(***************************************************************************)
NoHeading == [text |-> <<>>, level |-> "", page |-> 0 - 1]

\* the state before fitz.open, for document doc
Fresh(doc) ==
    /\ document = doc
    /\ handle = "unopened"
    /\ pc = "start"
    /\ sorted_font_sizes = <<>>
    /\ th = <<0, 0, 0, 0>>
    /\ title_candidates = <<>>
    /\ returned_title = None
    /\ extracted_title = <<>>
    /\ outline = <<>>
    /\ last_added_heading = NoHeading
    /\ page_num = 0
    /\ origin = <<>>

Init == \E doc \in WalkDocuments : Fresh(doc)

InitTitle == \E doc \in TitleDocuments : Fresh(doc)

\* line 175: fitz.open succeeds
Open ==
    /\ pc = "start"
    /\ handle' = "open"
    /\ pc' = "opened"
    /\ UNCHANGED <<document, sorted_font_sizes, th, title_candidates, returned_title,
                   extracted_title, outline, last_added_heading, page_num, origin>>

\* lines 176-177: fitz.open raises, IOError leaves the function
OpenFails ==
    /\ pc = "start"
    /\ pc' = "open_failed"
    /\ UNCHANGED <<document, handle, sorted_font_sizes, th, title_candidates,
                   returned_title, extracted_title, outline, last_added_heading,
                   page_num, origin>>

\* line 180
AnalyzeFonts ==
    /\ pc = "opened"
    /\ sorted_font_sizes' = analyze_document_fonts(document)
    /\ pc' = "analyzed"
    /\ UNCHANGED <<document, handle, th, title_candidates, returned_title,
                   extracted_title, outline, last_added_heading, page_num, origin>>

\* line 181
DetermineThresholds ==
    /\ pc = "analyzed"
    /\ th' = determine_heading_thresholds(sorted_font_sizes)
    /\ pc' = "thresholds"
    /\ UNCHANGED <<document, handle, sorted_font_sizes, title_candidates,
                   returned_title, extracted_title, outline, last_added_heading,
                   page_num, origin>>

\* lines 184-190: the title, the filename fallback, the empty outline
ExtractTitle ==
    /\ pc = "thresholds"
    /\ title_candidates' = PotentialTitles(document)
    /\ returned_title' = extract_title_from_document(document, th[1])
    /\ extracted_title' =
          IF returned_title'.found /\ returned_title'.text # <<>>
          THEN returned_title'.text
          ELSE FilenameTitle(pdf_path)
    /\ outline' = <<>>
    /\ last_added_heading' = NoHeading
    /\ page_num' = 0
    /\ pc' = "walk"
    /\ UNCHANGED <<document, handle, sorted_font_sizes, th, origin>>

\* lines 193-248: one turn of the loop over the pages
WalkPage ==
    /\ pc = "walk"
    /\ page_num < Len(document)
    /\ LET acc == WalkOnePage(document, page_num,
                              [outline |-> outline, last |-> last_added_heading,
                               origin |-> origin], th)
       IN  /\ outline' = acc.outline
           /\ last_added_heading' = acc.last
           /\ origin' = acc.origin
    /\ page_num' = page_num + 1
    /\ UNCHANGED <<document, handle, pc, sorted_font_sizes, th, title_candidates,
                   returned_title, extracted_title>>

\* lines 15-16, 79-80, 194-195: load_page or get_text raises while the fonts
\* are analysed, the title is scanned or a page is walked; nothing in
\* extract_outline_from_pdf catches it
LoadPageRaises ==
    /\ \/ pc \in {"opened", "thresholds"} /\ Len(document) > 0
       \/ pc = "walk" /\ page_num < Len(document)
    /\ pc' = "raised"
    /\ UNCHANGED <<document, handle, sorted_font_sizes, th, title_candidates,
                   returned_title, extracted_title, outline, last_added_heading,
                   page_num, origin>>

\* lines 250-251
Close ==
    /\ pc = "walk"
    /\ page_num = Len(document)
    /\ handle' = "closed"
    /\ pc' = "done"
    /\ UNCHANGED <<document, sorted_font_sizes, th, title_candidates, returned_title,
                   extracted_title, outline, last_added_heading, page_num, origin>>

Next ==
    \/ Open
    \/ OpenFails
    \/ AnalyzeFonts
    \/ DetermineThresholds
    \/ ExtractTitle
    \/ WalkPage
    \/ LoadPageRaises
    \/ Close

\* the extraction of one document of the outline-walk family
Spec == Init /\ [][Next]_vars

\* the extraction of one document of the title family
SpecTitle == InitTitle /\ [][Next]_vars

(***************************************************************************)
(* The walk of the first page of a document, a page of one line, under     *)
(* every ranked list of large sizes a document with that line can have.    *)
(* The later pages, which only add to the ranked sizes, are left out of    *)
(* document.                                                               *)
(***************************************************************************)
InitClassify ==
    \E line \in ClassifyLines, ranked \in RankedLargeLists :
        /\ RankedWith(ranked, line)
        /\ document = <<<<TextBlock(0, 0, <<line>>)>>>>
        /\ handle = "open"
        /\ pc = "walk"
        /\ sorted_font_sizes = ranked
        /\ th = determine_heading_thresholds(ranked)
        /\ title_candidates = <<>>
        /\ returned_title = None
        /\ extracted_title = FilenameTitle(pdf_path)
        /\ outline = <<>>
        /\ last_added_heading = NoHeading
        /\ page_num = 0
        /\ origin = <<>>

NextClassify == WalkPage

SpecClassify == InitClassify /\ [][NextClassify]_vars

(***************************************************************************)
(* determine_heading_thresholds alone, on any ranked list                  *)
(***************************************************************************)
InitThresholds ==
    \E ranked \in AnyRankedLists :
        /\ document = <<>>
        /\ handle = "open"
        /\ pc = "analyzed"
        /\ sorted_font_sizes = ranked
        /\ th = <<0, 0, 0, 0>>
        /\ title_candidates = <<>>
        /\ returned_title = None
        /\ extracted_title = <<>>
        /\ outline = <<>>
        /\ last_added_heading = NoHeading
        /\ page_num = 0
        /\ origin = <<>>

NextThresholds == DetermineThresholds

SpecThresholds == InitThresholds /\ [][NextThresholds]_vars

(***************************************************************************)
(* Properties of determine_heading_thresholds (under SpecThresholds)       *)
(***************************************************************************)
\* the distinct sizes above 12 of the ranked list
LargeSet == {sorted_font_sizes[i] : i \in 1..Len(sorted_font_sizes)} \ (0 - 1)..12

\* C1: for every ranked list the returned thresholds satisfy
\* h1 >= h2 >= h3 >= 12 and bodyMax = 12.
C1_ThresholdsMonotone ==
    pc = "thresholds" =>
        /\ th[1] >= th[2]
        /\ th[2] >= th[3]
        /\ th[3] >= 12
        /\ th[4] = 12

\* C1 witness: a list whose rank order is not size-descending, so that the
\* second threshold had to be clamped down to the first
C1_Witness ==
    /\ pc = "thresholds"
    /\ Len(sorted_font_sizes) >= 2
    /\ sorted_font_sizes[1] > 12
    /\ sorted_font_sizes[1] < sorted_font_sizes[2]
    /\ th[2] < sorted_font_sizes[2]

\* C6 as stated: with exactly one size s above 12 in the ranked list, the
\* thresholds are h1 = h2 = h3 = s for every such s.
C6_SingleLargeCollapse ==
    (pc = "thresholds" /\ Cardinality(LargeSet) = 1) =>
        \A s \in LargeSet : th[1] = s /\ th[2] = s /\ th[3] = s

\* C6 amended: with exactly one size s above 12, h2 = h3 = s and
\* h1 = max(s, 14): all three equal s from s = 14 on, and <<14, 13, 13>> at
\* s = 13.
C6_SingleLargeCollapseFrom14 ==
    (pc = "thresholds" /\ Cardinality(LargeSet) = 1) =>
        \A s \in LargeSet :
            /\ th[2] = s /\ th[3] = s
            /\ th[1] = (IF s >= 14 THEN s ELSE 14)

\* C6 witness: the single large size is 13, beside a size of the body range
C6_Witness ==
    /\ pc = "thresholds"
    /\ LargeSet = {13}
    /\ \E i \in 1..Len(sorted_font_sizes) : sorted_font_sizes[i] \in 10..12
    /\ th = <<14, 13, 13, 12>>

(***************************************************************************)
(* Properties of the classification of one line (under SpecClassify)       *)
(***************************************************************************)
\* the line of the one-line document, its text and its representative style
TheLine == document[1][1].lines[1]
TheText == FullLineText(TheLine)
TheSize == Round(TheLine[1].size)
TheBold == IsBold(TheLine[1].font)

\* the page holding the line has been walked
Walked == page_num = 1

\* the outline holds exactly the line, at level lv, on page 1
EmittedAs(lv) == outline = <<[level |-> lv, text |-> TheText, page |-> 1]>>

HasBackSection == \E k \in BackSections : Contains(k, Lower(TheText))
HasFrontSection == \E k \in FrontSections : Contains(k, Lower(TheText))
HasIntroduction == Contains(K_introduction, Lower(TheText))

\* C2 as stated, in the case it names: a line that contains "references",
\* "bibliography", "appendix", "glossary" or "index", at rounded size 10 in a
\* font that is not bold, is emitted as an H1 entry.
C2_KeywordAlwaysH1 ==
    (Walked /\ HasBackSection /\ TheSize = 10 /\ ~TheBold) => EmittedAs("H1")

\* C2 amended: a line that contains one of the five keywords is emitted as H1
\* when it passes the candidacy filter (two characters or more, none of the
\* non-heading patterns, bold or larger than 12, size >= 0.9 * h3) and the
\* size/boldness rule gives it no level; bold and of size >= h3 it keeps the
\* level of that rule; failing the filter, as every non-bold line of size
\* <= 12 does, it yields no entry.
C2_KeywordH1WhenCandidate ==
    (Walked /\ HasBackSection) =>
        IF /\ Len(TheText) >= 2
           /\ ~NonHeadingPattern(TheText)
           /\ (TheBold \/ TheSize > 12)
           /\ 10 * TheSize >= 9 * th[3]
        THEN IF TheBold /\ TheSize >= th[3]
             THEN EmittedAs(IF TheSize >= th[1] THEN "H1"
                            ELSE IF TheSize >= th[2] THEN "H2" ELSE "H3")
             ELSE EmittedAs("H1")
        ELSE outline = <<>>

\* C2 witness: "References" in a regular font, smaller than every threshold,
\* is emitted as H1
C2_Witness ==
    /\ Walked
    /\ TheText = <<"R","e","f","e","r","e","n","c","e","s">>
    /\ ~TheBold
    /\ TheSize < th[3]
    /\ EmittedAs("H1")

\* C3: a line whose full text is "12", "3" or "Page 3 of 10" never
\* produces an outline entry, whatever its size, font and the thresholds.
C3_PageNumbersRejected ==
    TheText \in {<<"1","2">>, <<"3">>,
                 <<"P","a","g","e"," ","3"," ","o","f"," ","1","0">>}
        => outline = <<>>

\* C3 witness: "12" in bold at 30 pt, above every threshold, has been walked
C3_Witness ==
    /\ Walked
    /\ TheText = <<"1","2">>
    /\ TheBold
    /\ TheSize = 30
    /\ TheSize > th[1]
    /\ outline = <<>>

\* C9: every outline entry comes from a line that passed the candidacy
\* filter: its size is at least 0.9 * h3, it is bold or larger than 12, it
\* has two characters or more and matches none of the non-heading patterns;
\* a line that fails yields no entry, whatever keyword it contains.
C9_EntriesPassedFilter ==
    outline # <<>> =>
        /\ 10 * TheSize >= 9 * th[3]
        /\ (  \/ Contains(K_bold, Lower(TheLine[1].font))
              \/ Contains(K_black, Lower(TheLine[1].font))
              \/ Contains(K_heavy, Lower(TheLine[1].font))
              \/ Contains(K_demi, Lower(TheLine[1].font))
              \/ TheSize > 12)
        /\ Len(TheText) >= 2
        /\ ~NonHeadingPattern(TheText)

\* C9 witness: a bold line that names a special section, too small for
\* 0.9 * h3, has been walked and left no entry
C9_Witness ==
    /\ Walked
    /\ (HasBackSection \/ HasFrontSection)
    /\ TheBold
    /\ 10 * TheSize < 9 * th[3]
    /\ outline = <<>>

\* C10: for a candidate line without a level from the size/boldness rule:
\* one of the six front-matter phrases gives H1 whatever the size;
\* "introduction", without those and without a keyword of the references
\* group, gives H1 exactly when size >= 0.9 * h2 and no entry otherwise.
C10_IntroductionAloneSizeBound ==
    ( /\ Walked
      /\ is_heading_candidate(TheText, TheSize, Lower(TheLine[1].font), th)
      /\ ~(TheBold /\ TheSize >= th[3]) ) =>
        /\ HasFrontSection => EmittedAs("H1")
        /\ (HasIntroduction /\ ~HasFrontSection /\ ~HasBackSection) =>
              IF 10 * TheSize >= 9 * th[2] THEN EmittedAs("H1") ELSE outline = <<>>

\* C10 witness: a front-matter phrase below 0.9 * h2 is emitted as H1
C10_Witness ==
    /\ Walked
    /\ HasFrontSection
    /\ ~HasIntroduction
    /\ 10 * TheSize < 9 * th[2]
    /\ EmittedAs("H1")

(***************************************************************************)
(* Properties of the outline walk (under Spec)                             *)
(***************************************************************************)
\* the classified headings of the lines of page p (one-based), in reading
\* order: blocks by (top, left), lines in their order inside a block
PageHeadings(p) ==
    LET items == LineItems(SortedBlocks(document[p]))
        heads == SelectSeq(items, LAMBDA it : LineLevel(it.spans, th) # NoLevel)
    IN  [i \in 1..Len(heads) |->
            [level |-> LineLevel(heads[i].spans, th),
             text  |-> FullLineText(heads[i].spans),
             page  |-> p]]

\* the classified headings of the pages walked so far
WalkedHeadings == Concat([p \in 1..page_num |-> PageHeadings(p)])

\* xs without every element equal to the element right before it
DropRepeats(xs) ==
    LET keep == {i \in 1..Len(xs) : i = 1 \/ xs[i] # xs[i-1]}
        nth(k) == CHOOSE i \in keep : Cardinality({j \in keep : j < i}) = k - 1
    IN  [k \in 1..Cardinality(keep) |-> xs[nth(k)]]

\* C4: a classified heading is left out exactly when its (text, level, page)
\* equals that of the entry appended last, one slot serving the whole
\* document: the outline is the classified headings without immediate
\* repeats, the slot holds its last entry, and no two adjacent entries are
\* equal.
C4_OnlyImmediateRepeatsDropped ==
    pc \in {"walk", "done"} =>
        /\ outline = DropRepeats(WalkedHeadings)
        /\ outline # <<>> => last_added_heading = outline[Len(outline)]
        /\ \A i \in 1..(Len(outline) - 1) : outline[i] # outline[i+1]

\* C4 witness: in one finished outline a repeat was dropped, an entry comes
\* back on its page after a different entry, and an entry of one page comes
\* back on the next page
C4_Witness ==
    /\ pc = "done"
    /\ Len(outline) < Len(WalkedHeadings)
    /\ \E i, j \in 1..Len(outline) : j > i + 1 /\ outline[i] = outline[j]
    /\ \E i \in 1..(Len(outline) - 1) :
          /\ outline[i].text = outline[i+1].text
          /\ outline[i].level = outline[i+1].level
          /\ outline[i].page # outline[i+1].page

\* the place an entry was read from, as a tuple in reading order
ReadingOrder(o) == <<o.page, o.key[1], o.key[2], o.blk, o.ln>>

\* C5: the outline lists its entries in non-decreasing page number
\* (page = page index + 1); entries of one page follow its text blocks
\* ascending by (top, left), lines in their order inside a block; at every
\* step the entries appended so far are in that order, none moved.
C5_ReadingOrderKept ==
    /\ Len(origin) = Len(outline)
    /\ \A i \in 1..Len(outline) :
          /\ outline[i].page = origin[i].page + 1
          /\ origin[i].key = <<document[outline[i].page][origin[i].blk].bbox[2],
                               document[outline[i].page][origin[i].blk].bbox[1]>>
          /\ outline[i].text =
                FullLineText(document[outline[i].page][origin[i].blk].lines[origin[i].ln])
    /\ \A i, j \in 1..Len(outline) :
          i < j => /\ outline[i].page <= outline[j].page
                   /\ ReadingOrder(origin[i]) # ReadingOrder(origin[j])
                   /\ TupleLE(ReadingOrder(origin[i]), ReadingOrder(origin[j]))

\* C5 witness: a finished outline with two entries of one page whose blocks
\* were given in the opposite order, two entries of one block, and entries
\* of two pages
C5_Witness ==
    /\ pc = "done"
    /\ \E i, j \in 1..Len(outline) :
          i < j /\ origin[i].page = origin[j].page /\ origin[i].blk > origin[j].blk
    /\ \E i, j \in 1..Len(outline) :
          i < j /\ origin[i].page = origin[j].page /\ origin[i].blk = origin[j].blk
    /\ \E i, j \in 1..Len(outline) : outline[i].page < outline[j].page

\* C7: once opened, the document is closed when the call ends, on the
\* normal return and when an exception leaves the call.
C7_ClosedOnEveryPath ==
    pc \in {"done", "raised"} => handle = "closed"

(***************************************************************************)
(* Properties of the title scan (under SpecTitle)                          *)
(***************************************************************************)
\* the places <<page, block, line, span>> of the non-empty spans of positive
\* rounded size in the text blocks of the first min(page count, 2) pages
TitleSpanPlaces ==
    {q \in UNION {UNION {UNION {{<<p, b, l, k>> :
                k \in 1..Len(document[p][b].lines[l])} :
                l \in 1..Len(document[p][b].lines)} :
                b \in 1..Len(document[p])} :
                p \in 1..(IF Len(document) < 2 THEN Len(document) ELSE 2)} :
        /\ document[q[1]][q[2]].type = 0
        /\ Strip(document[q[1]][q[2]].lines[q[3]][q[4]].text) # <<>>
        /\ Round(document[q[1]][q[2]].lines[q[3]][q[4]].size) > 0}

PlaceSize(q) == Round(document[q[1]][q[2]].lines[q[3]][q[4]].size)
PlaceText(q) == Strip(document[q[1]][q[2]].lines[q[3]][q[4]].text)

\* the places whose rounded size is the largest on those pages
MaximalPlaces ==
    {q \in TitleSpanPlaces : \A r \in TitleSpanPlaces : PlaceSize(r) <= PlaceSize(q)}

\* C8: the candidates are exactly the non-empty spans of positive rounded
\* size of the first min(page count, 2) pages whose rounded size is the
\* largest there; None is returned exactly when no candidate is on page
\* index 0; otherwise the first line of a candidate of page index 0 is
\* returned, whether or not any candidate passes the tests of the selection.
C8_TitleFromMaximalSpans ==
    pc \in {"walk", "done"} =>
        /\ Len(title_candidates) = Cardinality(MaximalPlaces)
        /\ {<<title_candidates[i].text, title_candidates[i].size,
              title_candidates[i].page>> : i \in 1..Len(title_candidates)}
             = {<<PlaceText(q), PlaceSize(q), q[1] - 1>> : q \in MaximalPlaces}
        /\ ~returned_title.found <=> (\A q \in MaximalPlaces : q[1] = 2)
        /\ returned_title.found =>
              \E q \in MaximalPlaces :
                  /\ q[1] = 1
                  /\ returned_title.text = Strip(FirstLine(PlaceText(q)))

\* C8 witness: a title is returned though no candidate passes the word
\* count, 0.8 * h1 size and keyword tests, in a document of three pages
\* whose third page holds a span larger than every candidate
C8_Witness ==
    /\ pc = "done"
    /\ returned_title.found
    /\ \A i \in 1..Len(title_candidates) : ~StrongTitle(title_candidates[i], th[1])
    /\ Len(document) = 3
    /\ \E b \in 1..Len(document[3]) :
          /\ document[3][b].type = 0
          /\ \E l \in 1..Len(document[3][b].lines) :
                \E k \in 1..Len(document[3][b].lines[l]) :
                    /\ Strip(document[3][b].lines[l][k].text) # <<>>
                    /\ Round(document[3][b].lines[l][k].size) > title_candidates[1].size

====
